---- MODULE Spec2Model ----
(***************************************************************************)
(* A model of pyppl/ppl_ast.py: the AST node taxonomy, the structural      *)
(* equality of nodes, the visitor dispatch protocol and the scope chain.   *)
(*                                                                         *)
(* Python objects are records with a field "kind" that holds the name of   *)
(* the object's class; the remaining fields of a node record are the       *)
(* entries of the instance's __dict__.  A dict is a sequence of            *)
(* <<key, value>> pairs in insertion order.                                *)
(***************************************************************************)
EXTENDS Integers, Sequences, FiniteSets, TLC

VARIABLES
    \* building bodies: the statement list A, the statement B and the bodies
    \* AstBody(A), AstBody([AstBody(A), B]) and AstBody(A ++ [B])
    bodyA, bodyB, inner, nested, flat,
    \* comparing binary nodes: the operands, the operator, AstBinary(a, op, b),
    \* AstBinary(b, op, a) and the outcomes of ab == ba and of a == b
    binA, binB, binOp, binAB, binBA, binEq, binOperandsEq,
    \* building vectors: the argument of makeVector and what it returned
    vecItems, vecResult,
    \* the scoped visitor: the chain of Scope objects from global_scope
    \* (frames[1]) to self.scope (frames[scope]; scope = 0 when self.scope is
    \* None) and the last call made with what it returned
    frames, scope, last,
    \* the arguments of define_all
    daNames, daValues, daVararg,
    \* the order in which this process iterates a set of field names
    hashSeed,
    \* a traversal: the node visited, the visitor, the call made, the events
    \* it caused and its outcome
    visNode, visVisitor, visOp, visLog, visResult,
    \* the tree under visNode as the traversal left it
    visTree,
    \* with-blocks: the depth of self.scope at each create_scope whose block
    \* is still open, and whether an exception is propagating
    blocks, raising,
    \* the numbers of enter_scope calls and of leave_scope calls that returned,
    \* and the position in frames of the frame of the current chain whose
    \* prev is None
    entered, exited, chainRoot,
    \* conj/cons: the receiver, the element, the method and what it returned
    conjVec, conjElem, conjOp, conjResult,
    \* rendering: the AstFunction object and the strings repr returned
    fnNode, fnReprs

bodyVars == <<bodyA, bodyB, inner, nested, flat>>
binVars == <<binA, binB, binOp, binAB, binBA, binEq, binOperandsEq>>
vecVars == <<vecItems, vecResult>>
scopeVars == <<frames, scope, last>>
daVars == <<daNames, daValues, daVararg>>
visitVars == <<hashSeed, visNode, visVisitor, visOp, visLog, visResult, visTree>>
withVars == <<blocks, raising>>
countVars == <<entered, exited, chainRoot>>
conjVars == <<conjVec, conjElem, conjOp, conjResult>>
fnVars == <<fnNode, fnReprs>>
vars == <<bodyVars, binVars, vecVars, scopeVars, daVars, visitVars,
          withVars, countVars, conjVars, fnVars>>

-----------------------------------------------------------------------------
(* Bounds *)

\* longest statement list handed to AstBody
MaxItems == 2
\* longest statement list of a body nested in another body
MaxInner == 1
\* longest list handed to makeVector
MaxVec == 3
\* deepest chain of scopes
MaxDepth == 3
\* longest list of positional values handed to define_all
MaxArgs == 3
\* calls of enter_scope in a run
MaxCalls == 4
\* calls of repr on one function
MaxReprs == 3

-----------------------------------------------------------------------------
(* Python values *)

\* a register that holds no object yet
Unset == [kind |-> "unset"]

PyNone == [kind |-> "NoneType"]
PyInt(n) == [kind |-> "int", value |-> n]
PyStr(s) == [kind |-> "str", value |-> s]
PyBool(b) == [kind |-> "bool", value |-> b]
PyList(s) == [kind |-> "list", items |-> s]
PyTuple(s) == [kind |-> "tuple", items |-> s]
PyDict(s) == [kind |-> "dict", entries |-> s]

\* the outcome of a call that raised
Raised(exc) == [kind |-> "raise", exc |-> exc]
IsRaised(o) == o.kind = "raise"

\* the types accepted as literals
LiteralTypes == {"bool", "complex", "float", "int", "str"}

NodeKinds ==
    {"AstValue", "AstSymbol", "AstReturn", "AstBreak", "AstBody", "AstBinary",
     "AstCall", "AstDict", "AstVector", "AstValueVector", "AstFunction"}

\* isinstance(o, AstNode)
IsAstNode(o) == o.kind \in NodeKinds

\* the names of AstNode.__dict__, which get_fields removes
AstNodeDict ==
    {"_attributes", "tag", "get_fields", "set_field_values", "get_children",
     "get_ast_children", "get_type", "get_visitor_names", "visit",
     "visit_children", "visit_attribute", "equals"}

\* the attribute names of the model that start with an underscore
PrivateNames == {"_info"}

\* get_fields: the instance attributes that are not names of AstNode and do
\* not start with an underscore
get_fields(node) == ((DOMAIN node \ {"kind"}) \ AstNodeDict) \ PrivateNames

\* d[key] = value on a __dict__ or a dict held as a function
Put(d, key, value) ==
    [k \in DOMAIN d \cup {key} |-> IF k = key THEN value ELSE d[k]]

Range(s) == {s[i] : i \in 1..Len(s)}
SeqsUpTo(S, n) == UNION {[1..k -> S] : k \in 0..n}

RECURSIVE SelectSeqNotNone(_)
SelectSeqNotNone(s) ==
    IF s = <<>> THEN <<>>
    ELSE IF Head(s) = PyNone THEN SelectSeqNotNone(Tail(s))
    ELSE <<Head(s)>> \o SelectSeqNotNone(Tail(s))

-----------------------------------------------------------------------------
(* Node constructors *)

AstValue(value) ==
    IF value = PyNone \/ value.kind \in LiteralTypes
    THEN [kind |-> "AstValue", value |-> value]
    ELSE Raised("AssertionError")

AstSymbol(name) ==
    [kind |-> "AstSymbol", name |-> PyStr(name), import_source |-> PyNone,
     protected |-> PyBool(FALSE)]

AstReturn(value) ==
    LET v == IF value = PyNone THEN AstValue(PyNone) ELSE value
    IN  IF IsAstNode(v) THEN [kind |-> "AstReturn", value |-> v]
        ELSE Raised("AssertionError")

AstBreak == [kind |-> "AstBreak"]

\* the loop of AstBody.__init__ that inlines nested bodies, from item i on
RECURSIVE FlattenFrom(_, _, _)
FlattenFrom(items, i, new_items) ==
    IF i > Len(items) THEN new_items
    ELSE IF items[i].kind = "AstBody"
         THEN FlattenFrom(items, i + 1, new_items \o items[i].items.items)
    ELSE IF items[i].kind \in {"AstReturn", "AstBreak"}
         THEN Append(new_items, items[i])
    ELSE FlattenFrom(items, i + 1, Append(new_items, items[i]))

AstBody(items) ==
    LET its == IF items.kind = "NoneType" THEN <<>> ELSE items.items
        kept == IF \E i \in 1..Len(its) : its[i].kind = "AstBody"
                THEN FlattenFrom(its, 1, <<>>)
                ELSE SelectSeqNotNone(its)
    IN  IF \A i \in 1..Len(kept) : IsAstNode(kept[i])
        THEN [kind |-> "AstBody", items |-> PyList(kept), context |-> PyNone]
        ELSE Raised("AssertionError")

BinaryOps ==
    {"+", "-", "*", "/", "%", "//", "**", "<<", ">>", "&", "|", "^", "and", "or"}

\* the canonical name of a binary operator in AstBinary.__binary_ops
BinaryOpName(op) ==
    CASE op = "+" -> "add" [] op = "-" -> "sub" [] op = "*" -> "mul"
      [] op = "/" -> "div" [] op = "%" -> "mod" [] op = "//" -> "idiv"
      [] op = "**" -> "pow" [] op = "<<" -> "shl" [] op = ">>" -> "shr"
      [] op = "&" -> "bit_and" [] op = "|" -> "bit_or" [] op = "^" -> "bit-xor"
      [] op = "and" -> "and" [] op = "or" -> "or"

AstBinary(left, op, right) ==
    IF IsAstNode(left) /\ IsAstNode(right) /\ op \in BinaryOps
    THEN [kind |-> "AstBinary", left |-> left, op |-> PyStr(op), right |-> right]
    ELSE Raised("AssertionError")

AstCall(function, args, keyword_args) ==
    LET kw == IF keyword_args.kind = "NoneType" THEN PyDict(<<>>) ELSE keyword_args
    IN  IF /\ IsAstNode(function)
           /\ \A i \in 1..Len(args.items) : IsAstNode(args.items[i])
           /\ kw.kind = "dict"
           /\ \A i \in 1..Len(kw.entries) :
                  kw.entries[i][1].kind = "str" /\ IsAstNode(kw.entries[i][2])
        THEN [kind |-> "AstCall", function |-> function, args |-> args,
              keyword_args |-> kw]
        ELSE Raised("AssertionError")

AstDict(items) ==
    IF /\ items.kind = "dict"
       /\ \A i \in 1..Len(items.entries) :
              /\ items.entries[i][1].kind \in {"bool", "complex", "float", "int", "str"}
              /\ IsAstNode(items.entries[i][2])
    THEN [kind |-> "AstDict", items |-> items]
    ELSE Raised("AssertionError")

\* is_value_vector of AstValueVector.__init__
RECURSIVE is_value_vector(_)
is_value_vector(v) ==
    IF v.kind \in {"list", "tuple"}
    THEN \A i \in 1..Len(v.items) : is_value_vector(v.items[i])
    ELSE v.kind \in LiteralTypes

AstValueVector(items) ==
    IF items.kind = "list" /\ is_value_vector(items)
    THEN [kind |-> "AstValueVector", items |-> items]
    ELSE Raised("AssertionError")

AstVector(items) ==
    IF items.kind = "list" /\ \A i \in 1..Len(items.items) : IsAstNode(items.items[i])
    THEN [kind |-> "AstVector", items |-> items]
    ELSE Raised("AssertionError")

makeVector(items) ==
    IF \A i \in 1..Len(items.items) : items.items[i].kind = "AstValue"
    THEN AstValueVector(PyList([i \in 1..Len(items.items) |-> items.items[i].value]))
    ELSE IF \A i \in 1..Len(items.items) : items.items[i].kind \in LiteralTypes
    THEN AstValueVector(items)
    ELSE AstVector(items)

\* is_vector
is_vector(node) == node.kind \in {"AstValueVector", "AstVector"}

-----------------------------------------------------------------------------
(* Structural equality.  A comparison yields "True", "False" or "Raise". *)

Bool3(b) == IF b THEN "True" ELSE "False"
BinaryCommutativeOps == {"+", "*", "and", "or"}

RECURSIVE PyEq(_, _)
RECURSIVE NodeEq(_, _)
RECURSIVE ZipEq(_, _, _)
RECURSIVE DefaultEquals(_, _)
RECURSIVE BinaryEquals(_, _)
RECURSIVE BodyEquals(_, _)
RECURSIVE CallEquals(_, _)
RECURSIVE CallKeywordsEq(_, _, _)
RECURSIVE DictEquals(_, _)
RECURSIVE DictItemsEq(_, _, _)

\* "for a, b in zip(xs, ys): if a != b: return False" from position i on
ZipEq(xs, ys, i) ==
    IF i > Len(xs) \/ i > Len(ys) THEN "True"
    ELSE LET r == PyEq(xs[i], ys[i])
         IN  IF r = "True" THEN ZipEq(xs, ys, i + 1) ELSE r

\* value of key in a dict, the dict being a sequence of pairs
HasKey(entries, key) == \E i \in 1..Len(entries) : entries[i][1] = key
Lookup(entries, key) ==
    entries[CHOOSE i \in 1..Len(entries) : entries[i][1] = key][2]

\* AstNode.equals: field by field, any exception gives False
DefaultEquals(a, b) ==
    LET FieldEq(attr) ==
            IF attr \notin DOMAIN b THEN "Raise"
            ELSE IF a[attr].kind \in {"list", "tuple"} /\ b[attr].kind \in {"list", "tuple"}
                 THEN ZipEq(a[attr].items, b[attr].items, 1)
            ELSE PyEq(a[attr], b[attr])
    IN  Bool3(\A attr \in get_fields(a) : FieldEq(attr) = "True")

BinaryEquals(a, b) ==
    IF a.op = b.op
    THEN LET l == PyEq(a.left, b.left)
             r == PyEq(a.right, b.right)
             sl == PyEq(a.left, b.right)
             sr == PyEq(a.right, b.left)
         IN  IF l = "Raise" THEN "Raise"
             ELSE IF l = "True" /\ r = "Raise" THEN "Raise"
             ELSE IF l = "True" /\ r = "True" THEN "True"
             ELSE IF a.op.value \notin BinaryCommutativeOps THEN "False"
             ELSE IF sl = "Raise" THEN "Raise"
             ELSE IF sl = "False" THEN "False"
             ELSE sr
    ELSE "False"

BodyEquals(a, b) ==
    IF Len(a.items.items) = Len(b.items.items)
    THEN ZipEq(a.items.items, b.items.items, 1)
    ELSE "False"

\* the loop of AstCall.equals over the keywords: "key not in node" applies
\* "in" to an AstCall, which is not iterable
CallKeywordsEq(a, b, i) ==
    IF i > Len(a.keyword_args.entries) THEN "True" ELSE "Raise"

CallEquals(a, b) ==
    LET f == PyEq(a.function, b.function)
    IN  IF f # "True" THEN f
        ELSE IF Len(a.args.items) # Len(b.args.items) THEN "False"
        ELSE IF Len(a.keyword_args.entries) # Len(b.keyword_args.entries) THEN "False"
        ELSE LET r == ZipEq(a.args.items, b.args.items, 1)
             IN  IF r # "True" THEN r ELSE CallKeywordsEq(a, b, 1)

DictItemsEq(a, b, i) ==
    IF i > Len(a.items.entries) THEN "True"
    ELSE LET key == a.items.entries[i][1]
         IN  IF ~HasKey(b.items.entries, key) THEN "False"
             ELSE LET r == PyEq(a.items.entries[i][2], Lookup(b.items.entries, key))
                  IN  IF r = "True" THEN DictItemsEq(a, b, i + 1) ELSE r

DictEquals(a, b) ==
    IF Len(a.items.entries) = Len(b.items.entries)
    THEN DictItemsEq(a, b, 1)
    ELSE "False"

\* the equals method of a's class
Equals(a, b) ==
    CASE a.kind = "AstBinary" -> BinaryEquals(a, b)
      [] a.kind = "AstBody" -> BodyEquals(a, b)
      [] a.kind = "AstBreak" -> "True"
      [] a.kind = "AstCall" -> CallEquals(a, b)
      [] a.kind = "AstDict" -> DictEquals(a, b)
      [] a.kind = "AstSymbol" -> Bool3(a.name = b.name)
      [] OTHER -> DefaultEquals(a, b)

\* AstNode.__eq__
NodeEq(a, b) == IF b.kind = a.kind THEN Equals(a, b) ELSE "False"

\* a == b for any two objects
PyEq(a, b) ==
    IF IsAstNode(a) THEN NodeEq(a, b)
    ELSE IF IsAstNode(b) THEN NodeEq(b, a)
    ELSE IF a.kind \in {"list", "tuple"} /\ b.kind = a.kind
         THEN IF Len(a.items) = Len(b.items) THEN ZipEq(a.items, b.items, 1) ELSE "False"
    ELSE Bool3(a = b)

-----------------------------------------------------------------------------
(* The traversal protocol.  A visitor is a record: methods maps the names   *)
(* of the visit methods it exposes to what they do, hooks is the set of     *)
(* enter_/leave_ names it exposes, call says what calling the visitor       *)
(* itself does ("" when it is not callable).  A traversal yields the        *)
(* events it caused, its result and the exception it raised ("" if none).   *)

Event(ev, name, arg) == [ev |-> ev, name |-> name, arg |-> arg]
Ok(log, result, same) == [log |-> log, result |-> result, exc |-> "", same |-> same]
Fail(log, exc) == [log |-> log, result |-> PyNone, exc |-> exc, same |-> FALSE]

Reverse(s) == [i \in 1..Len(s) |-> s[Len(s) + 1 - i]]

\* every field name of the model, in the order of the assignments in the
\* constructors
FieldUniverse ==
    <<"value", "name", "import_source", "protected", "left", "op", "right",
      "function", "args", "keyword_args", "items", "context", "parameters",
      "body", "vararg", "doc_string", "info">>

\* list(set(...)) of get_fields: the order is that of the set's hash table
FieldSeq(node) ==
    LET U == IF hashSeed = "fwd" THEN FieldUniverse ELSE Reverse(FieldUniverse)
        IsField(f) == f \in get_fields(node)
    IN  SelectSeq(U, IsField)

\* the class name without "Ast": as written, lower-cased and in snake case
BaseName(kind) ==
    CASE kind = "AstValueVector" ->
             [exact |-> "ValueVector", lower |-> "valuevector", snake |-> "value_vector"]
      [] kind = "AstValue" -> [exact |-> "Value", lower |-> "value", snake |-> "value"]
      [] kind = "AstSymbol" -> [exact |-> "Symbol", lower |-> "symbol", snake |-> "symbol"]
      [] kind = "AstReturn" -> [exact |-> "Return", lower |-> "return", snake |-> "return"]
      [] kind = "AstBreak" -> [exact |-> "Break", lower |-> "break", snake |-> "break"]
      [] kind = "AstFunction" ->
             [exact |-> "Function", lower |-> "function", snake |-> "function"]
      [] kind = "AstBody" -> [exact |-> "Body", lower |-> "body", snake |-> "body"]
      [] kind = "AstBinary" -> [exact |-> "Binary", lower |-> "binary", snake |-> "binary"]
      [] kind = "AstCall" -> [exact |-> "Call", lower |-> "call", snake |-> "call"]
      [] kind = "AstDict" -> [exact |-> "Dict", lower |-> "dict", snake |-> "dict"]
      [] kind = "AstVector" -> [exact |-> "Vector", lower |-> "vector", snake |-> "vector"]

\* AstNode.get_visitor_names
default_visitor_names(node) ==
    LET b == BaseName(node.kind)
    IN  <<"visit_" \o b.exact, "visit_" \o b.lower, "visit_" \o b.snake>>

\* get_visitor_names of the node's class (the callee names used by the
\* model hold none of the characters that AstCall replaces)
get_visitor_names(node) ==
    IF node.kind = "AstBinary"
    THEN <<"visit_binary_" \o BinaryOpName(node.op.value)>> \o default_visitor_names(node)
    ELSE IF node.kind = "AstCall" /\ node.function.kind = "AstSymbol"
    THEN <<"visit_call_" \o node.function.name.value>> \o default_visitor_names(node)
    ELSE default_visitor_names(node)

\* AstNode.__get_envelop_method_names
get_envelop_method_names(node) ==
    <<"enter_" \o BaseName(node.kind).lower, "leave_" \o BaseName(node.kind).lower>>

\* hasattr(item, '__iter__')
HasIter(item) ==
    item.kind \in {"list", "tuple", "dict", "str", "AstVector", "AstValueVector"}

\* the list of the characters of a string
PyChars(s) == [kind |-> "list", chars |-> s]

\* try ... finally that runs the leave hook only when nothing was raised
Finally_unless_raised(enter, body, leave) ==
    IF body.exc = "" THEN [body EXCEPT !.log = <<enter>> \o @ \o <<leave>>]
    ELSE [body EXCEPT !.log = <<enter>> \o @]

\* env_methods[0](self); try: body finally: env_methods[1](obj)
Finally(enter, body, leave) == [body EXCEPT !.log = <<enter>> \o @ \o <<leave>>]

RECURSIVE Visitor_visit(_, _)
RECURSIVE AstNode_visit(_, _)
RECURSIVE visit_children(_, _)
RECURSIVE VisitFields(_, _, _, _)
RECURSIVE VisitEach(_, _, _, _)
RECURSIVE RunHandler(_, _, _, _)

\* the elements of objs from position i on, each visited (every one when
\* all is set, else only nodes, lists and tuples); results is a sequence
VisitEach(visitor, objs, i, all) ==
    LET Join(o, rest) == [log |-> o.log \o rest.log,
                          results |-> <<o.result>> \o rest.results,
                          exc |-> rest.exc]
        Then(o) == IF o.exc # "" THEN [log |-> o.log, results |-> <<>>, exc |-> o.exc]
                   ELSE Join(o, VisitEach(visitor, objs, i + 1, all))
    IN  IF i > Len(objs) THEN [log |-> <<>>, results |-> <<>>, exc |-> ""]
        ELSE Then(IF all \/ IsAstNode(objs[i]) \/ objs[i].kind \in {"tuple", "list"}
                  THEN Visitor_visit(visitor, objs[i])
                  ELSE Ok(<<>>, objs[i], TRUE))

\* Visitor.visit
Visitor_visit(visitor, ast) ==
    LET elems == IF ast.kind = "dict"
                 THEN [i \in 1..Len(ast.entries) |-> ast.entries[i][2]]
                 ELSE ast.items
        Collect(r) ==
            IF r.exc # "" THEN Fail(r.log, r.exc)
            ELSE IF ast.kind = "dict"
            THEN Ok(r.log,
                    PyDict([i \in 1..Len(ast.entries) |-> <<ast.entries[i][1], r.results[i]>>]),
                    FALSE)
            ELSE IF ast.kind = "tuple" THEN Ok(r.log, PyTuple(r.results), FALSE)
            ELSE Ok(r.log, PyList(r.results), FALSE)
    IN  IF ast.kind = "NoneType" THEN Ok(<<>>, PyNone, TRUE)
        ELSE IF IsAstNode(ast) THEN AstNode_visit(ast, visitor)
        ELSE IF ast.kind \in {"dict", "tuple", "list"}
        THEN Collect(VisitEach(visitor, elems, 1, ast.kind # "list"))
        ELSE IF ast.kind = "str" THEN Ok(<<>>, PyChars(ast.value), FALSE)
        ELSE Fail(<<>>, "TypeError")

\* the loop of visit_children over the fields fs[i..]
VisitFields(node, visitor, fs, i) ==
    LET item == node[fs[i]]
        Join(o, rest) == [log |-> <<Event("visit", fs[i], item)>> \o o.log \o rest.log,
                          results |-> <<o.result>> \o rest.results,
                          exc |-> rest.exc]
        Then(o) == IF o.exc # ""
                   THEN [log |-> <<Event("visit", fs[i], item)>> \o o.log,
                         results |-> <<>>, exc |-> o.exc]
                   ELSE Join(o, VisitFields(node, visitor, fs, i + 1))
    IN  IF i > Len(fs) THEN [log |-> <<>>, results |-> <<>>, exc |-> ""]
        ELSE IF IsAstNode(item) \/ HasIter(item)
        THEN Then(Visitor_visit(visitor, item))
        ELSE VisitFields(node, visitor, fs, i + 1)

\* AstNode.visit_children
visit_children(node, visitor) ==
    LET Collect(r) == IF r.exc # "" THEN Fail(r.log, r.exc)
                      ELSE Ok(r.log, PyList(r.results), FALSE)
    IN  Collect(VisitFields(node, visitor, FieldSeq(node), 1))

\* what a method of the visitor (or the visitor called as a function) does
\* with the node
RunHandler(visitor, name, does, node) ==
    LET call == <<Event("call", name, node)>>
        Children(c) == IF c.exc # "" THEN Fail(call \o c.log, c.exc)
                       ELSE Ok(call \o c.log, node, TRUE)
    IN  CASE does = "self" -> Ok(call, node, TRUE)
          [] does = "copy" -> Ok(call, node, FALSE)
          [] does = "other" -> Ok(call, PyStr("result"), FALSE)
          [] does = "raise" -> Fail(call, "HandlerError")
          [] does = "children" -> Children(visit_children(node, visitor))

\* the methods found for names, picked from the end
exposed_methods_reversed(names, visitor) ==
    LET Exposed(n) == n \in DOMAIN visitor.methods
    IN  Reverse(SelectSeq(names, Exposed))

\* [getattr(visitor, name, None) for name in names] without the None
exposed_methods(names, visitor) ==
    LET Exposed(n) == n \in DOMAIN visitor.methods
    IN  SelectSeq(names, Exposed)

\* AstNode.visit
AstNode_visit(node, visitor) ==
    LET methods == exposed_methods(get_visitor_names(node) \o <<"visit_node", "generic_visit">>,
                                   visitor)
        env == get_envelop_method_names(node)
        InHooks(n) == n \in visitor.hooks
        env_methods == SelectSeq(env, InHooks)
        After(kids, r) == [r EXCEPT !.log = kids.log \o @]
        Handle(kids, name, does) ==
            IF kids.exc # "" THEN kids
            ELSE After(kids, RunHandler(visitor, name, does, node))
        Dispatch(name, does) ==
            Handle(IF visitor.children_first THEN visit_children(node, visitor)
                   ELSE Ok(<<>>, PyNone, FALSE),
                   name, does)
        Envelope(body) ==
            IF Len(env_methods) = 2
            THEN Finally(Event("enter", env[1], node), body,
                         Event("leave", env[2],
                               IF body.exc = "" /\ body.result.kind = node.kind
                               THEN body.result ELSE node))
            ELSE body
    IN  IF Len(methods) = 0 /\ visitor.call # ""
        THEN Dispatch("__call__", visitor.call)
        ELSE IF Len(methods) > 0
        THEN Envelope(Dispatch(methods[1], visitor.methods[methods[1]]))
        ELSE Fail(<<>>, "RuntimeError")

\* one step down the tree: the field, and the position in a sequence held
\* by the field (0 for a field that holds a node)
Step(f, i) == [f |-> f, i |-> i]

RECURSIVE visit_attribute(_, _, _, _)
RECURSIVE AttrFields(_, _, _, _, _, _)
RECURSIVE AttrItems(_, _, _, _, _, _)

\* "for node in item: if isinstance(node, AstNode): node.visit_attribute(..)"
\* over the elements items[k..] of a list or tuple
AttrItems(items, visitor, attr_name, path, f, k) ==
    LET After(r, rest) == [rest EXCEPT !.log = r.log \o @]
        Then(r) == IF r.exc # "" THEN [items |-> items, log |-> r.log, exc |-> r.exc]
                   ELSE After(r, AttrItems([items EXCEPT ![k] = r.node], visitor,
                                           attr_name, path, f, k + 1))
    IN  IF k > Len(items) THEN [items |-> items, log |-> <<>>, exc |-> ""]
        ELSE IF IsAstNode(items[k])
        THEN Then(visit_attribute(items[k], visitor, attr_name, Append(path, Step(f, k))))
        ELSE AttrItems(items, visitor, attr_name, path, f, k + 1)

\* the loop of visit_attribute over the fields fs[i..]; iterating a dict
\* gives its keys and iterating a string its characters, none of them a node
AttrFields(node, visitor, attr_name, path, fs, i) ==
    LET item == node[fs[i]]
        After(r, rest) == [rest EXCEPT !.log = r.log \o @]
        Then(r, changed) ==
            IF r.exc # "" THEN [node |-> node, log |-> r.log, exc |-> r.exc]
            ELSE After(r, AttrFields(changed, visitor, attr_name, path, fs, i + 1))
        ThenNode(r) == Then(r, [node EXCEPT ![fs[i]] = r.node])
        ThenItems(r) == Then(r, [node EXCEPT ![fs[i]].items = r.items])
    IN  IF i > Len(fs) THEN [node |-> node, log |-> <<>>, exc |-> ""]
        ELSE IF IsAstNode(item)
        THEN ThenNode(visit_attribute(item, visitor, attr_name,
                                      Append(path, Step(fs[i], 0))))
        ELSE IF item.kind \in {"list", "tuple"}
        THEN ThenItems(AttrItems(item.items, visitor, attr_name, path, fs[i], 1))
        ELSE AttrFields(node, visitor, attr_name, path, fs, i + 1)

\* AstNode.visit_attribute on the node at path: the node afterwards, the
\* events, the value stored and the exception raised
visit_attribute(node, visitor, attr_name, path) ==
    LET Stored(v) == IF v.same THEN PyNone ELSE v.result
        Set(kids, v) ==
            IF v.exc # "" THEN [node |-> kids.node, log |-> kids.log \o v.log,
                                exc |-> v.exc, result |-> PyNone]
            ELSE [node |-> Put(kids.node, attr_name, Stored(v)),
                  log |-> kids.log \o v.log
                            \o <<Event("setattr", attr_name, [path |-> path])>>,
                  exc |-> "", result |-> Stored(v)]
        Then(kids) ==
            IF kids.exc # "" THEN [node |-> node, log |-> kids.log, exc |-> kids.exc,
                                   result |-> PyNone]
            ELSE Set(kids, AstNode_visit(kids.node, visitor))
    IN  Then(AttrFields(node, visitor, attr_name, path, FieldSeq(node), 1))

-----------------------------------------------------------------------------
(* Scopes *)

\* Scope.__init__: no bindings, no protected names; prev is the frame below
NewScope == [bindings |-> <<>>, protected_names |-> {}]

\* Scope.define: the assertion compares the class str, not the name, with ''
\* and '_', so it holds for every string
Scope_define(s, name, value) == [s EXCEPT !.bindings = Put(@, name, value)]

Scope_define_protected(s, name) ==
    [s EXCEPT !.protected_names = @ \cup {name}]

\* Scope.resolve without the test of protected_names
RECURSIVE Scope_resolve_unprotected(_, _, _)
Scope_resolve_unprotected(fs, i, name) ==
    IF name \in DOMAIN fs[i].bindings THEN fs[i].bindings[name]
    ELSE IF i > 1 THEN Scope_resolve_unprotected(fs, i - 1, name)
    ELSE PyNone

\* Scope.resolve of the frame fs[i], whose prev is fs[i - 1]
RECURSIVE Scope_resolve(_, _, _)
Scope_resolve(fs, i, name) ==
    IF name \in fs[i].protected_names THEN PyNone
    ELSE IF name \in DOMAIN fs[i].bindings THEN fs[i].bindings[name]
    ELSE IF i > 1 THEN Scope_resolve(fs, i - 1, name)
    ELSE PyNone

\* ScopedVisitor.leave_scope: self.scope = self.scope.prev
LeaveDepth(d) == d - 1

\* ScopedVisitor.define that always writes into global_scope
Visitor_define_global(fs, d, name, value, globally) ==
    [fs EXCEPT ![1] = Scope_define(@, name, value)]

\* ScopedVisitor.define with a string name
\* (fs, d): the chain and the depth of self.scope
Visitor_define(fs, d, name, value, globally) ==
    LET i == IF globally THEN 1 ELSE d
    IN  [fs EXCEPT ![i] = Scope_define(@, name, value)]

\* the loop of define_all over zip(names, values), from position i on
RECURSIVE DefineZip(_, _, _, _, _)
DefineZip(fs, d, names, values, i) ==
    IF i > Len(names) \/ i > Len(values) THEN fs
    ELSE LET n == IF names[i].kind = "AstSymbol" THEN names[i].name ELSE names[i]
             fs1 == IF n.kind = "str"
                    THEN Visitor_define(fs, d, n.value, values[i], FALSE)
                    ELSE fs
         IN  DefineZip(fs1, d, names, values, i + 1)

\* define_all: the chain afterwards and what the call returned
define_all(fs, d, names, values, vararg) ==
    LET fs1 == DefineZip(fs, d, names.items, values.items, 1)
        rest == IF Len(values.items) > Len(names.items)
                THEN makeVector(PyList(SubSeq(values.items, Len(names.items) + 1,
                                              Len(values.items))))
                ELSE PyList(<<>>)
    IN  IF vararg.kind = "NoneType" THEN [frames |-> fs1, ret |-> PyNone]
        ELSE IF IsRaised(rest) THEN [frames |-> fs1, ret |-> rest]
        ELSE [frames |-> Visitor_define(fs1, d, vararg.value, rest, FALSE),
              ret |-> PyNone]

-----------------------------------------------------------------------------
(* Building bodies *)

LeafStmts == {AstSymbol("x"), AstReturn(AstValue(PyInt(1))), AstBreak}
InnerBodies == {AstBody(PyList(s)) : s \in SeqsUpTo(LeafStmts, MaxInner)}
Stmts == LeafStmts \cup InnerBodies

IdleBody ==
    /\ bodyA = <<>>
    /\ bodyB = Unset
    /\ inner = Unset
    /\ nested = Unset
    /\ flat = Unset

IdleBinary ==
    /\ binA = Unset
    /\ binB = Unset
    /\ binOp = ""
    /\ binAB = Unset
    /\ binBA = Unset
    /\ binEq = ""
    /\ binOperandsEq = ""

IdleVector ==
    /\ vecItems = Unset
    /\ vecResult = Unset

\* no call made yet
NoCall == [op |-> "none", frame |-> 0, name |-> "", globally |-> FALSE, ret |-> PyNone]

IdleScope ==
    /\ frames = <<>>
    /\ scope = 0
    /\ last = NoCall

IdleVisit ==
    /\ hashSeed = "fwd"
    /\ visNode = Unset
    /\ visVisitor = Unset
    /\ visOp = ""
    /\ visLog = <<>>
    /\ visResult = Unset
    /\ visTree = Unset

IdleDefineAll ==
    /\ daNames = Unset
    /\ daValues = Unset
    /\ daVararg = Unset

IdleWith ==
    /\ blocks = <<>>
    /\ raising = FALSE

IdleCount ==
    /\ entered = 0
    /\ exited = 0
    /\ chainRoot = 1

IdleConj ==
    /\ conjVec = Unset
    /\ conjElem = Unset
    /\ conjOp = ""
    /\ conjResult = Unset

IdleFunction ==
    /\ fnNode = Unset
    /\ fnReprs = <<>>

InitBody ==
    /\ IdleBinary /\ IdleVector /\ IdleScope /\ IdleDefineAll /\ IdleVisit
    /\ IdleWith /\ IdleCount /\ IdleConj /\ IdleFunction
    /\ bodyA \in SeqsUpTo(Stmts, MaxItems)
    /\ bodyB \in Stmts
    /\ inner = Unset
    /\ nested = Unset
    /\ flat = Unset

\* inner = AstBody(A)
BuildInner ==
    /\ inner = Unset
    /\ inner' = AstBody(PyList(bodyA))
    /\ UNCHANGED <<bodyA, bodyB, nested, flat, binVars, vecVars, scopeVars, daVars, visitVars, withVars, countVars, conjVars, fnVars>>

\* nested = AstBody([AstBody(A), B])
BuildNested ==
    /\ inner # Unset
    /\ nested = Unset
    /\ nested' = AstBody(PyList(<<inner, bodyB>>))
    /\ UNCHANGED <<bodyA, bodyB, inner, flat, binVars, vecVars, scopeVars, daVars, visitVars, withVars, countVars, conjVars, fnVars>>

\* flat = AstBody(A ++ [B])
BuildFlat ==
    /\ flat = Unset
    /\ flat' = AstBody(PyList(Append(bodyA, bodyB)))
    /\ UNCHANGED <<bodyA, bodyB, inner, nested, binVars, vecVars, scopeVars, daVars, visitVars, withVars, countVars, conjVars, fnVars>>

NextBody == BuildInner \/ BuildNested \/ BuildFlat
SpecBody == InitBody /\ [][NextBody]_vars

-----------------------------------------------------------------------------
(* Claims on AstBody *)

\* C1: a body built from [AstBody(A), B] equals the body built from A ++ [B]
FlatteningLaw ==
    (nested # Unset /\ flat # Unset) => NodeEq(nested, flat) = "True"

\* C2: a body built from [AstReturn(v), X] equals the body built from
\* [AstReturn(v)] alone, whatever X is
DeadCodeAfterReturn ==
    (Len(bodyA) = 1 /\ bodyA[1].kind = "AstReturn" /\ inner # Unset /\ flat # Unset)
        => NodeEq(flat, inner) = "True"

-----------------------------------------------------------------------------
(* Comparing binary nodes *)

SymX == AstSymbol("x")
SymY == AstSymbol("y")
One == AstValue(PyInt(1))
CallKw == AstCall(AstSymbol("f"), PyList(<<>>), PyDict(<< <<PyStr("k"), One>> >>))

Operands ==
    {One, SymX, SymY, CallKw,
     AstCall(AstSymbol("f"), PyList(<<SymX>>), PyNone),
     AstVector(PyList(<<SymX>>)), AstVector(PyList(<<SymX, SymY>>)),
     AstBinary(SymX, "+", SymY), AstBinary(SymY, "+", SymX),
     AstBinary(SymX, "-", SymY), AstReturn(CallKw)}

OperandOps == {"+", "*", "and", "or", "-", "/"}

InitBinary ==
    /\ IdleBody /\ IdleVector /\ IdleScope /\ IdleDefineAll /\ IdleVisit
    /\ IdleWith /\ IdleCount /\ IdleConj /\ IdleFunction
    /\ binA \in Operands
    /\ binB \in Operands
    /\ binOp \in OperandOps
    /\ binAB = Unset
    /\ binBA = Unset
    /\ binEq = ""
    /\ binOperandsEq = ""

\* ab = AstBinary(a, op, b)
BuildAB ==
    /\ binAB = Unset
    /\ binAB' = AstBinary(binA, binOp, binB)
    /\ UNCHANGED <<binA, binB, binOp, binBA, binEq, binOperandsEq, bodyVars, vecVars, scopeVars, daVars, visitVars, withVars, countVars, conjVars, fnVars>>

\* ba = AstBinary(b, op, a)
BuildBA ==
    /\ binBA = Unset
    /\ binBA' = AstBinary(binB, binOp, binA)
    /\ UNCHANGED <<binA, binB, binOp, binAB, binEq, binOperandsEq, bodyVars, vecVars, scopeVars, daVars, visitVars, withVars, countVars, conjVars, fnVars>>

\* ab == ba, and a == b
CompareBinary ==
    /\ binAB # Unset /\ binBA # Unset
    /\ binEq = ""
    /\ binEq' = NodeEq(binAB, binBA)
    /\ binOperandsEq' = PyEq(binA, binB)
    /\ UNCHANGED <<binA, binB, binOp, binAB, binBA, bodyVars, vecVars, scopeVars, daVars, visitVars, withVars, countVars, conjVars, fnVars>>

NextBinary == BuildAB \/ BuildBA \/ CompareBinary
SpecBinary == InitBinary /\ [][NextBinary]_vars

\* C3: for op in {+, *, and, or} AstBinary(a, op, b) == AstBinary(b, op, a);
\* for op '-' the two are equal if and only if a == b
BinaryCommutes ==
    binEq # "" =>
        /\ binOp \in {"+", "*", "and", "or"} => binEq = "True"
        /\ binOp = "-" => (binEq = "True" <=> binOperandsEq = "True")

\* C14: a == b never raises: the comparison of the operands and the
\* comparison of the binary nodes built from them both yield True or False.
EqualityNeverRaises ==
    binEq # "" => (binOperandsEq \in {"True", "False"} /\ binEq \in {"True", "False"})

-----------------------------------------------------------------------------
(* Building vectors *)

VecElements ==
    {One, AstValue(PyNone), AstValue(PyStr("s")), SymX, PyInt(1), PyInt(2)}

InitVector ==
    /\ IdleBody /\ IdleBinary /\ IdleScope /\ IdleDefineAll /\ IdleVisit
    /\ IdleWith /\ IdleCount /\ IdleConj /\ IdleFunction
    /\ vecItems \in {PyList(s) : s \in SeqsUpTo(VecElements, MaxVec)}
    /\ vecResult = Unset

\* result = makeVector(items)
MakeVector ==
    /\ vecResult = Unset
    /\ vecResult' = makeVector(vecItems)
    /\ UNCHANGED <<vecItems, bodyVars, binVars, scopeVars, daVars, visitVars, withVars, countVars, conjVars, fnVars>>

NextVector == MakeVector
SpecVector == InitVector /\ [][NextVector]_vars

\* every item is an AstValue node, or every item is a bare literal
AllLiteral(items) ==
    \/ \A i \in 1..Len(items) : items[i].kind = "AstValue"
    \/ \A i \in 1..Len(items) : items[i].kind \in LiteralTypes

\* at least one item is a node that is not an AstValue
SomeNonLiteralNode(items) ==
    \E i \in 1..Len(items) : IsAstNode(items[i]) /\ items[i].kind # "AstValue"

\* C4: makeVector on n literals gives an AstValueVector of length n, on n
\* items with a non-literal node among them an AstVector of the n items in
\* order, and it never fails
MakeVectorTotal ==
    vecResult # Unset =>
        /\ ~IsRaised(vecResult)
        /\ AllLiteral(vecItems.items) =>
              /\ vecResult.kind = "AstValueVector"
              /\ Len(vecResult.items.items) = Len(vecItems.items)
        /\ SomeNonLiteralNode(vecItems.items) =>
              /\ vecResult.kind = "AstVector"
              /\ vecResult.items = vecItems

-----------------------------------------------------------------------------
(* conj and cons *)

\* [AstValue(item) for item in items]
AsValues(items) == [i \in 1..Len(items) |-> AstValue(items[i])]

\* a constructor call whose list argument is built from xs: an assertion
\* that failed while xs was built ends the call
Built(xs, node) ==
    IF \E i \in 1..Len(xs) : IsRaised(xs[i]) THEN Raised("AssertionError") ELSE node

\* AstValueVector.conj
ValueVector_conj(self, element) ==
    IF element.kind \in LiteralTypes
    THEN AstValueVector(PyList(self.items.items \o <<element>>))
    ELSE IF element.kind = "AstValue"
    THEN AstValueVector(PyList(self.items.items \o <<element.value>>))
    ELSE IF IsAstNode(element)
    THEN Built(AsValues(self.items.items),
               AstVector(PyList(AsValues(self.items.items) \o <<element>>)))
    ELSE AstCall(AstSymbol("conj"), PyList(<<self, element>>), PyNone)

\* AstValueVector.cons
ValueVector_cons(self, element) ==
    IF element.kind \in LiteralTypes
    THEN AstValueVector(PyList(<<element>> \o self.items.items))
    ELSE IF element.kind = "AstValue"
    THEN AstValueVector(PyList(<<element.value>> \o self.items.items))
    ELSE IF IsAstNode(element)
    THEN Built(<<AstValue(element)>> \o AsValues(self.items.items),
               AstVector(PyList(<<AstValue(element)>> \o AsValues(self.items.items))))
    ELSE AstCall(AstSymbol("cons"), PyList(<<element, self>>), PyNone)

\* AstVector.conj
Vector_conj(self, element) ==
    IF IsAstNode(element) THEN AstVector(PyList(self.items.items \o <<element>>))
    ELSE IF element.kind \in LiteralTypes
    THEN AstVector(PyList(self.items.items \o <<AstValue(element)>>))
    ELSE AstCall(AstSymbol("conj"), PyList(<<self, element>>), PyNone)

\* AstVector.cons
Vector_cons(self, element) ==
    IF IsAstNode(element) THEN AstVector(PyList(<<element>> \o self.items.items))
    ELSE IF element.kind \in LiteralTypes
    THEN AstVector(PyList(<<AstValue(element)>> \o self.items.items))
    ELSE AstCall(AstSymbol("cons"), PyList(<<element, self>>), PyNone)

ConjReceivers ==
    {AstValueVector(PyList(s)) : s \in SeqsUpTo({PyInt(1), PyStr("s")}, MaxVec)}
        \cup {AstVector(PyList(s)) : s \in SeqsUpTo({SymX, One}, MaxVec)}

ConjElements == {PyInt(2), One, AstValue(PyStr("s")), SymX, AstBinary(One, "+", SymX)}

InitConj ==
    /\ IdleBody /\ IdleBinary /\ IdleVector /\ IdleScope /\ IdleDefineAll /\ IdleVisit
    /\ IdleWith /\ IdleCount /\ IdleFunction
    /\ conjVec \in ConjReceivers
    /\ conjElem \in ConjElements
    /\ conjOp \in {"conj", "cons"}
    /\ conjResult = Unset

\* result = vec.conj(element), or vec.cons(element)
ApplyConj ==
    /\ conjResult = Unset
    /\ conjResult' =
          IF conjVec.kind = "AstValueVector"
          THEN IF conjOp = "conj" THEN ValueVector_conj(conjVec, conjElem)
               ELSE ValueVector_cons(conjVec, conjElem)
          ELSE IF conjOp = "conj" THEN Vector_conj(conjVec, conjElem)
               ELSE Vector_cons(conjVec, conjElem)
    /\ UNCHANGED <<conjVec, conjElem, conjOp, bodyVars, binVars, vecVars, scopeVars,
                   daVars, visitVars, withVars, countVars, fnVars>>

NextConj == ApplyConj
SpecConj == InitConj /\ [][NextConj]_vars

\* C15: conj and cons never fail; the result has one item more, the element
\* last (conj) or first (cons) and the receiver's items in order.  On a
\* literal-vector a literal or an AstValue gives a literal-vector holding the
\* element's value, any other node an AstVector of the element itself and the
\* receiver's items as AstValue nodes; on an AstVector the result is an
\* AstVector holding the element (a bare literal as an AstValue node).
ConjConsWiden ==
    conjResult # Unset =>
        LET old == conjVec.items.items
            n == Len(old)
            pos == IF conjOp = "conj" THEN n + 1 ELSE 1
            at(k) == IF conjOp = "conj" THEN k ELSE k + 1
            literal == conjElem.kind \in LiteralTypes
        IN  /\ ~IsRaised(conjResult)
            /\ Len(conjResult.items.items) = n + 1
            /\ IF conjVec.kind = "AstValueVector" /\ (literal \/ conjElem.kind = "AstValue")
               THEN /\ conjResult.kind = "AstValueVector"
                    /\ conjResult.items.items[pos]
                          = (IF literal THEN conjElem ELSE conjElem.value)
                    /\ \A k \in 1..n : conjResult.items.items[at(k)] = old[k]
               ELSE IF conjVec.kind = "AstValueVector"
               THEN /\ conjResult.kind = "AstVector"
                    /\ conjResult.items.items[pos] = conjElem
                    /\ \A k \in 1..n : conjResult.items.items[at(k)] = AstValue(old[k])
               ELSE /\ conjResult.kind = "AstVector"
                    /\ conjResult.items.items[pos]
                          = (IF literal THEN AstValue(conjElem) ELSE conjElem)
                    /\ \A k \in 1..n : conjResult.items.items[at(k)] = old[k]

-----------------------------------------------------------------------------
(* The scoped visitor *)

ScopeNames == {"x"}
ScopeValues == {PyInt(1), PyInt(2)}

\* ScopedVisitor.__init__
InitScope ==
    /\ IdleBody /\ IdleBinary /\ IdleVector /\ IdleDefineAll /\ IdleVisit
    /\ IdleWith /\ IdleCount /\ IdleConj /\ IdleFunction
    /\ frames = <<NewScope>>
    /\ scope = 1
    /\ last = NoCall

enter_scope ==
    /\ scope >= 1
    /\ scope < MaxDepth
    /\ frames' = Append(frames, NewScope)
    /\ scope' = scope + 1
    /\ last' = [NoCall EXCEPT !.op = "enter_scope"]
    /\ UNCHANGED <<bodyVars, binVars, vecVars, daVars, visitVars, withVars, countVars, conjVars, fnVars>>

\* leaving the root leaves self.scope None and fails the assertion; the
\* root stays referenced as global_scope
leave_scope ==
    /\ scope >= 1
    /\ scope' = LeaveDepth(scope)
    /\ frames' = IF scope > 1 THEN SubSeq(frames, 1, scope') ELSE frames
    /\ last' = [NoCall EXCEPT !.op = "leave_scope",
                              !.ret = IF scope' = 0 THEN Raised("AssertionError")
                                      ELSE PyNone]
    /\ UNCHANGED <<bodyVars, binVars, vecVars, daVars, visitVars, withVars, countVars, conjVars, fnVars>>

define ==
    /\ scope >= 1
    /\ \E name \in ScopeNames, value \in ScopeValues, globally \in BOOLEAN :
          /\ frames' = Visitor_define(frames, scope, name, value, globally)
          /\ last' = [NoCall EXCEPT !.op = "define", !.name = name,
                                    !.globally = globally, !.ret = PyBool(TRUE)]
    /\ UNCHANGED <<scope, bodyVars, binVars, vecVars, daVars, visitVars, withVars, countVars, conjVars, fnVars>>

protect ==
    /\ scope >= 1
    /\ \E name \in ScopeNames :
          /\ frames' = [frames EXCEPT ![scope] = Scope_define_protected(@, name)]
          /\ last' = [NoCall EXCEPT !.op = "protect", !.name = name]
    /\ UNCHANGED <<scope, bodyVars, binVars, vecVars, daVars, visitVars, withVars, countVars, conjVars, fnVars>>

\* f.resolve(name) for a frame f of the chain; ScopedVisitor.resolve is
\* the case f = self.scope
resolve ==
    /\ scope >= 1
    /\ \E i \in 1..scope, name \in ScopeNames :
          last' = [NoCall EXCEPT !.op = "resolve", !.frame = i, !.name = name,
                                !.ret = Scope_resolve(frames, i, name)]
    /\ UNCHANGED <<frames, scope, bodyVars, binVars, vecVars, daVars, visitVars, withVars, countVars, conjVars, fnVars>>

Next == enter_scope \/ leave_scope \/ define \/ protect \/ resolve
Spec == InitScope /\ [][Next]_vars

\* frame k of the chain neither binds nor protects name
Silent(fs, k, name) ==
    name \notin DOMAIN fs[k].bindings /\ name \notin fs[k].protected_names

\* C5: once a frame f1 protects x, f1.resolve(x) returns None whatever the
\* frames outside f1 bind, and so does f2.resolve(x) for a frame f2 inside f1
\* as long as the frames from f2 up to f1 neither bind nor protect x
ProtectedBarrier ==
    /\ \A name \in ScopeNames : \A i \in 1..scope : \A j \in i..scope :
          (/\ name \in frames[i].protected_names
           /\ \A k \in (i + 1)..j : Silent(frames, k, name))
              => Scope_resolve(frames, j, name) = PyNone
    /\ (/\ last.op = "resolve"
        /\ \E i \in 1..last.frame :
              /\ last.name \in frames[i].protected_names
              /\ \A k \in (i + 1)..last.frame : Silent(frames, k, last.name))
           => last.ret = PyNone

\* root binds x, f1 protects x, f2 is silent on x, and f2.resolve(x) has
\* returned None
ProtectedBarrierWitness ==
    /\ scope = 3
    /\ "x" \in DOMAIN frames[1].bindings
    /\ "x" \in frames[2].protected_names
    /\ Silent(frames, 3, "x")
    /\ last.op = "resolve" /\ last.frame = 3 /\ last.name = "x"
    /\ last.ret = PyNone

\* the frames of the chain fs[1..d] that bind name
Binders(fs, d, name) == {i \in 1..d : name \in DOMAIN fs[i].bindings}

\* the value bound by the innermost frame that binds name, else None
Innermost(fs, d, name) ==
    IF Binders(fs, d, name) = {} THEN PyNone
    ELSE fs[CHOOSE i \in Binders(fs, d, name) :
                \A j \in Binders(fs, d, name) : j <= i].bindings[name]

NoneProtected(fs, d) == \A i \in 1..d : fs[i].protected_names = {}

\* C6: with no protected name and no leave_scope at the root, resolve gives
\* the binding of the innermost frame of the current chain that binds the
\* name, or None; after leave_scope every name resolves as it did in the
\* enclosing frame, and a non-global define changes no enclosing frame
ChainResolution ==
    [][(scope' >= 1 /\ NoneProtected(frames', scope')) =>
          /\ \A name \in ScopeNames :
                Scope_resolve(frames', scope', name) = Innermost(frames', scope', name)
          /\ (last'.op = "resolve" /\ last'.frame = scope')
                => last'.ret = Innermost(frames, scope, last'.name)
          /\ last'.op = "leave_scope"
                => /\ scope' = scope - 1
                   /\ \A name \in ScopeNames :
                         Scope_resolve(frames', scope', name)
                             = Scope_resolve(frames, scope - 1, name)
          /\ last'.op = "enter_scope"
                => \A name \in ScopeNames :
                      Scope_resolve(frames', scope', name)
                          = Scope_resolve(frames, scope, name)
          /\ (last'.op = "define" /\ ~last'.globally)
                => /\ \A i \in 1..(scope - 1) : frames'[i] = frames[i]
                   /\ last'.name \in DOMAIN frames'[scope].bindings
      ]_vars

\* root and an inner frame bind x to different values and the visitor's
\* resolve has returned the inner one
ChainResolutionWitness ==
    /\ scope = 2
    /\ NoneProtected(frames, scope)
    /\ "x" \in DOMAIN frames[1].bindings
    /\ "x" \in DOMAIN frames[2].bindings
    /\ frames[1].bindings["x"] # frames[2].bindings["x"]
    /\ last.op = "resolve" /\ last.frame = 2 /\ last.name = "x"
    /\ last.ret = frames[2].bindings["x"]

-----------------------------------------------------------------------------
(* with-blocks: "with visitor.create_scope(): ..." *)

\* ScopeContext.__exit__ that skips leave_scope when the block raised
Context_exit_unless_raised(fs, d, exc) ==
    IF exc THEN [frames |-> fs, scope |-> d, raised |-> TRUE]
    ELSE [frames |-> SubSeq(fs, 1, LeaveDepth(d)), scope |-> LeaveDepth(d),
          raised |-> LeaveDepth(d) = 0]

\* ScopeContext.__exit__ on the chain (fs, d), exc telling whether the block
\* raised: leave_scope runs and None is returned, so the exception of the
\* block is raised again; leave_scope itself raises when self.scope is None
\* (AttributeError) or becomes None (AssertionError)
Context_exit(fs, d, exc) ==
    IF d = 0 THEN [frames |-> fs, scope |-> 0, raised |-> TRUE]
    ELSE [frames |-> IF d > 1 THEN SubSeq(fs, 1, LeaveDepth(d)) ELSE fs,
          scope |-> LeaveDepth(d),
          raised |-> exc \/ LeaveDepth(d) = 0]

\* a visitor that may have entered one scope already
InitWith ==
    /\ IdleBody /\ IdleBinary /\ IdleVector /\ IdleDefineAll /\ IdleVisit
    /\ IdleWith /\ IdleCount /\ IdleConj /\ IdleFunction
    /\ frames \in {<<NewScope>>, <<NewScope, NewScope>>}
    /\ scope = Len(frames)
    /\ last = NoCall

\* visitor.create_scope() at the head of a with statement; __enter__ changes
\* nothing
create_scope ==
    /\ ~raising
    /\ scope >= 1
    /\ scope < MaxDepth
    /\ frames' = Append(frames, NewScope)
    /\ scope' = scope + 1
    /\ blocks' = Append(blocks, scope)
    /\ last' = [NoCall EXCEPT !.op = "create_scope"]
    /\ UNCHANGED <<raising, bodyVars, binVars, vecVars, daVars, visitVars,
                   countVars, conjVars, fnVars>>

\* the innermost open block is left, at its end or by the exception that is
\* propagating
exit_block ==
    /\ blocks # <<>>
    /\ \E r \in {Context_exit(frames, scope, raising)} :
          /\ frames' = r.frames
          /\ scope' = r.scope
          /\ raising' = r.raised
    /\ blocks' = SubSeq(blocks, 1, Len(blocks) - 1)
    /\ last' = [NoCall EXCEPT !.op = "leave_scope"]
    /\ UNCHANGED <<bodyVars, binVars, vecVars, daVars, visitVars,
                   countVars, conjVars, fnVars>>

\* a statement of the block raises
raise_in_block ==
    /\ ~raising
    /\ blocks # <<>>
    /\ raising' = TRUE
    /\ last' = [NoCall EXCEPT !.op = "raise"]
    /\ UNCHANGED <<frames, scope, blocks, bodyVars, binVars, vecVars, daVars,
                   visitVars, countVars, conjVars, fnVars>>

\* the exception has left the outermost block and reaches the caller
reach_caller ==
    /\ raising
    /\ blocks = <<>>
    /\ raising' = FALSE
    /\ last' = [NoCall EXCEPT !.op = "with", !.ret = Raised("BlockError")]
    /\ UNCHANGED <<frames, scope, blocks, bodyVars, binVars, vecVars, daVars,
                   visitVars, countVars, conjVars, fnVars>>

\* statements of a block (or between blocks) that bind and protect names
define_in_block == ~raising /\ define
protect_in_block == ~raising /\ protect

NextWith ==
    \/ create_scope
    \/ exit_block
    \/ raise_in_block
    \/ reach_caller
    \/ define_in_block
    \/ protect_in_block
SpecWith == InitWith /\ [][NextWith]_vars

\* C11: create_scope makes a new, empty frame current whose prev is the frame
\* that was current (the chain below it is untouched); that frame is current
\* while the block is open; every exit from the block, at its end or by an
\* exception, runs leave_scope once, so that the frame that was current at
\* create_scope is current again, and an exception raised in the block keeps
\* propagating until it reaches the caller.
WithBlockRestores ==
    [][/\ blocks # <<>> => scope = blocks[Len(blocks)] + 1
       /\ Len(blocks') > Len(blocks) =>
             /\ scope' = scope + 1
             /\ frames'[scope'] = NewScope
             /\ SubSeq(frames', 1, scope) = frames
       /\ Len(blocks') < Len(blocks) =>
             /\ last'.op = "leave_scope"
             /\ scope' = scope - 1
             /\ scope' = blocks[Len(blocks)]
             /\ frames' = SubSeq(frames, 1, scope')
             /\ raising' = raising
       /\ (raising /\ blocks = <<>>) => last'.ret = Raised("BlockError")]_vars

\* an exception raised in a block has reached the caller, and the frame that
\* was current before create_scope is current again with its binding
WithBlockRestoresWitness ==
    /\ last.op = "with"
    /\ last.ret = Raised("BlockError")
    /\ blocks = <<>>
    /\ scope = 2
    /\ "x" \in DOMAIN frames[2].bindings

-----------------------------------------------------------------------------
(* Entering and leaving, with the calls counted *)

\* leave_scope without the assertion
ScopedVisitor_leave_scope_unchecked(d, root) ==
    IF d = 0 THEN [scope |-> 0, ret |-> Raised("AttributeError")]
    ELSE [scope |-> IF d = root THEN 0 ELSE LeaveDepth(d), ret |-> PyNone]

\* ScopedVisitor.leave_scope with self.scope at depth d of a chain that
\* starts at root: self.scope = self.scope.prev (AttributeError when
\* self.scope is None), then assert(self.scope is not None)
ScopedVisitor_leave_scope(d, root) ==
    IF d = 0 THEN [scope |-> 0, ret |-> Raised("AttributeError")]
    ELSE IF d = root THEN [scope |-> 0, ret |-> Raised("AssertionError")]
    ELSE [scope |-> LeaveDepth(d), ret |-> PyNone]

InitLeave ==
    /\ IdleBody /\ IdleBinary /\ IdleVector /\ IdleDefineAll /\ IdleVisit
    /\ IdleWith /\ IdleCount /\ IdleConj /\ IdleFunction
    /\ frames = <<NewScope>>
    /\ scope = 1
    /\ last = NoCall

\* enter_scope: Scope(self.scope); with self.scope None (frames then holds
\* global_scope alone) the new frame starts a chain of its own
EnterCounted ==
    /\ entered < MaxCalls
    /\ frames' = Append(frames, NewScope)
    /\ scope' = Len(frames')
    /\ chainRoot' = IF scope = 0 THEN scope' ELSE chainRoot
    /\ entered' = entered + 1
    /\ last' = [NoCall EXCEPT !.op = "enter_scope"]
    /\ UNCHANGED <<exited, bodyVars, binVars, vecVars, daVars, visitVars,
                   withVars, conjVars, fnVars>>

LeaveCounted ==
    /\ \E r \in {ScopedVisitor_leave_scope(scope, chainRoot)} :
          /\ scope' = r.scope
          /\ frames' = SubSeq(frames, 1, IF r.scope = 0 THEN 1 ELSE r.scope)
          /\ exited' = IF IsRaised(r.ret) THEN exited ELSE exited + 1
          /\ last' = [NoCall EXCEPT !.op = "leave_scope", !.ret = r.ret]
    /\ UNCHANGED <<entered, chainRoot, bodyVars, binVars, vecVars, daVars,
                   visitVars, withVars, conjVars, fnVars>>

\* a binding made in the current frame
DefineCounted ==
    /\ scope >= 1
    /\ \E value \in ScopeValues :
          /\ frames' = Visitor_define(frames, scope, "x", value, FALSE)
          /\ last' = [NoCall EXCEPT !.op = "define", !.name = "x", !.ret = PyBool(TRUE)]
    /\ UNCHANGED <<scope, bodyVars, binVars, vecVars, daVars, visitVars,
                   withVars, countVars, conjVars, fnVars>>

NextLeave == EnterCounted \/ LeaveCounted \/ DefineCounted
SpecLeave == InitLeave /\ [][NextLeave]_vars

\* C16: leave_scope fails when the current frame has no enclosing frame (or
\* there is no current frame); a leave_scope that returns was preceded by
\* more enter_scope calls than leave_scope calls that returned.
LeaveAtRootFails ==
    [][last'.op = "leave_scope" =>
          /\ (scope = 0 \/ scope = chainRoot) =>
                /\ IsRaised(last'.ret)
                /\ exited' = exited
          /\ ~IsRaised(last'.ret) => entered > exited]_vars

\* as many scopes left as entered, and one leave_scope more has failed
LeaveAtRootFailsWitness ==
    /\ last.op = "leave_scope"
    /\ last.ret = Raised("AssertionError")
    /\ entered = 2
    /\ exited = 2
    /\ chainRoot = 1

-----------------------------------------------------------------------------
(* The names a frame accepts *)

\* the class str, which the assertions of Scope compare with '' and '_'
StrClass == [kind |-> "type", name |-> "str"]

\* assert type(name) is str and str != '' and str != '_'
Scope_name_assert(name) ==
    /\ name.kind = "str"
    /\ StrClass # PyStr("")
    /\ StrClass # PyStr("_")

NameArgs == {PyStr("x"), PyStr(""), PyStr("_"), PyInt(1)}

InitNames ==
    /\ IdleBody /\ IdleBinary /\ IdleVector /\ IdleDefineAll /\ IdleVisit
    /\ IdleWith /\ IdleCount /\ IdleConj /\ IdleFunction
    /\ frames = <<NewScope>>
    /\ scope = 1
    /\ last = NoCall

\* self.scope.define(name, value)
ScopeDefine ==
    \E name \in NameArgs, value \in ScopeValues :
        /\ IF Scope_name_assert(name)
           THEN /\ frames' = [frames EXCEPT ![scope] = Scope_define(@, name.value, value)]
                /\ last' = [op |-> "Scope.define", arg |-> name, ret |-> PyNone]
           ELSE /\ frames' = frames
                /\ last' = [op |-> "Scope.define", arg |-> name,
                            ret |-> Raised("AssertionError")]
        /\ UNCHANGED <<scope, bodyVars, binVars, vecVars, daVars, visitVars,
                       withVars, countVars, conjVars, fnVars>>

\* self.scope.define_protected(name)
ScopeDefineProtected ==
    \E name \in NameArgs :
        /\ IF Scope_name_assert(name)
           THEN /\ frames' = [frames EXCEPT ![scope] = Scope_define_protected(@, name.value)]
                /\ last' = [op |-> "Scope.define_protected", arg |-> name, ret |-> PyNone]
           ELSE /\ frames' = frames
                /\ last' = [op |-> "Scope.define_protected", arg |-> name,
                            ret |-> Raised("AssertionError")]
        /\ UNCHANGED <<scope, bodyVars, binVars, vecVars, daVars, visitVars,
                       withVars, countVars, conjVars, fnVars>>

NextNames == ScopeDefine \/ ScopeDefineProtected
SpecNames == InitNames /\ [][NextNames]_vars

\* C12: define and define_protected fail for the names '' and '_', so that
\* no frame ever binds or protects one of them.
PlaceholderNamesRejected ==
    /\ (last.op \in {"Scope.define", "Scope.define_protected"}
            /\ last.arg \in {PyStr(""), PyStr("_")})
          => IsRaised(last.ret)
    /\ \A i \in 1..Len(frames) :
          /\ DOMAIN frames[i].bindings \cap {"", "_"} = {}
          /\ frames[i].protected_names \cap {"", "_"} = {}

-----------------------------------------------------------------------------
(* Destructuring define *)

\* what iterating a vector node yields: the literals of an AstValueVector,
\* the nodes of an AstVector
VectorElements(value) == value.items.items

\* "for n, v in zip(name, value): scope.define(n, v)" from position k on; the
\* assertion of Scope.define ends the loop with the bindings made so far
RECURSIVE DefineEach(_, _, _, _, _)
DefineEach(fs, i, names, values, k) ==
    IF k > Len(names) \/ k > Len(values) THEN [frames |-> fs, ret |-> PyBool(TRUE)]
    ELSE IF ~Scope_name_assert(names[k])
    THEN [frames |-> fs, ret |-> Raised("AssertionError")]
    ELSE DefineEach([fs EXCEPT ![i] = Scope_define(@, names[k].value, values[k])],
                    i, names, values, k + 1)

\* ScopedVisitor.define for a name of any type: the chain afterwards and
\* what the call returned
ScopedVisitor_define(fs, d, name, value, globally) ==
    IF name.kind = "str"
    THEN IF Scope_name_assert(name)
         THEN [frames |-> Visitor_define(fs, d, name.value, value, globally),
               ret |-> PyBool(TRUE)]
         ELSE [frames |-> fs, ret |-> Raised("AssertionError")]
    ELSE IF name.kind = "tuple"
    THEN IF is_vector(value) /\ Len(name.items) = Len(VectorElements(value))
         THEN DefineEach(fs, IF globally THEN 1 ELSE d, name.items,
                         VectorElements(value), 1)
         ELSE [frames |-> fs, ret |-> PyBool(TRUE)]
    ELSE [frames |-> fs, ret |-> PyBool(FALSE)]

TargetNames ==
    {PyStr("a"), PyInt(5), PyTuple(<<>>), PyTuple(<<PyStr("a")>>),
     PyTuple(<<PyStr("a"), PyStr("b")>>)}

TargetValues ==
    {AstValueVector(PyList(<<>>)), AstValueVector(PyList(<<PyInt(1)>>)),
     AstValueVector(PyList(<<PyInt(1), PyInt(2)>>)),
     AstVector(PyList(<<SymX, One>>)), One, SymX}

InitDestructure ==
    /\ IdleBody /\ IdleBinary /\ IdleVector /\ IdleDefineAll /\ IdleVisit
    /\ IdleWith /\ IdleCount /\ IdleConj /\ IdleFunction
    /\ frames \in {<<NewScope>>, <<NewScope, NewScope>>}
    /\ scope = Len(frames)
    /\ last = NoCall

\* visitor.define(name, value, globally=...)
DefineTarget ==
    \E name \in TargetNames, value \in TargetValues, globally \in BOOLEAN :
        /\ \E r \in {ScopedVisitor_define(frames, scope, name, value, globally)} :
              /\ frames' = r.frames
              /\ last' = [op |-> "ScopedVisitor.define", arg |-> name, value |-> value,
                          globally |-> globally, ret |-> r.ret]
        /\ UNCHANGED <<scope, bodyVars, binVars, vecVars, daVars, visitVars,
                       withVars, countVars, conjVars, fnVars>>

NextDestructure == DefineTarget
SpecDestructure == InitDestructure /\ [][NextDestructure]_vars

\* C13: define with a tuple of names binds every name to the element at its
\* position and returns True when the value is a vector node of the same
\* length; otherwise it changes no frame and returns False.
DestructuringDefine ==
    [][(last'.op = "ScopedVisitor.define" /\ last'.arg.kind = "tuple") =>
          IF is_vector(last'.value)
                /\ Len(last'.arg.items) = Len(VectorElements(last'.value))
          THEN /\ last'.ret = PyBool(TRUE)
               /\ \A k \in 1..Len(last'.arg.items) :
                     LET i == IF last'.globally THEN 1 ELSE scope
                         n == last'.arg.items[k].value
                     IN  /\ n \in DOMAIN frames'[i].bindings
                         /\ frames'[i].bindings[n] = VectorElements(last'.value)[k]
          ELSE /\ frames' = frames
               /\ last'.ret = PyBool(FALSE)]_vars

-----------------------------------------------------------------------------
(* define_all *)

ParamNames ==
    {<<>>, <<PyStr("a")>>, <<PyStr("a"), PyStr("b")>>, <<AstSymbol("a"), PyStr("b")>>}
ArgValues == {PyInt(1), PyInt(2), One, SymX}

InitDefineAll ==
    /\ IdleBody /\ IdleBinary /\ IdleVector /\ IdleVisit
    /\ IdleWith /\ IdleCount /\ IdleConj /\ IdleFunction
    /\ frames = <<NewScope>>
    /\ scope = 1
    /\ last = NoCall
    /\ daNames \in {PyList(s) : s \in ParamNames}
    /\ daValues \in {PyList(s) : s \in SeqsUpTo(ArgValues, MaxArgs)}
    /\ daVararg \in {PyNone, PyStr("rest")}

\* entering the scope of the function that is applied
EnterFunction ==
    /\ last.op = "none"
    /\ scope < 2
    /\ frames' = Append(frames, NewScope)
    /\ scope' = scope + 1
    /\ UNCHANGED <<last, bodyVars, binVars, vecVars, daVars, visitVars, withVars, countVars, conjVars, fnVars>>

DefineAll ==
    /\ last.op = "none"
    /\ LET r == define_all(frames, scope, daNames, daValues, daVararg)
       IN  /\ frames' = r.frames
           /\ last' = [NoCall EXCEPT !.op = "define_all", !.ret = r.ret]
    /\ UNCHANGED <<scope, bodyVars, binVars, vecVars, daVars, visitVars, withVars, countVars, conjVars, fnVars>>

NextDefineAll == EnterFunction \/ DefineAll
SpecDefineAll == InitDefineAll /\ [][NextDefineAll]_vars

\* the string a parameter stands for
ParamName(p) == IF p.kind = "AstSymbol" THEN p.name.value ELSE p.value

\* the element a vector holds for the positional value v
Held(vec, v) == IF vec.kind = "AstValueVector" /\ v.kind = "AstValue" THEN v.value ELSE v

\* C9: define_all binds names[i] to values[i] in the current frame and binds
\* the variadic name to a vector of exactly the values beyond len(names), in
\* order, which is an empty vector when none remain
DefineAllBinds ==
    last.op = "define_all" =>
        LET names == daNames.items
            values == daValues.items
            b == frames[scope].bindings
            n == IF Len(values) > Len(names) THEN Len(values) - Len(names) ELSE 0
        IN  /\ ~IsRaised(last.ret)
            /\ \A i \in 1..Len(names) :
                  i <= Len(values) =>
                      /\ ParamName(names[i]) \in DOMAIN b
                      /\ b[ParamName(names[i])] = values[i]
            /\ daVararg.kind = "str" =>
                  /\ daVararg.value \in DOMAIN b
                  /\ is_vector(b[daVararg.value])
                  /\ Len(b[daVararg.value].items.items) = n
                  /\ \A k \in 1..n :
                        b[daVararg.value].items.items[k]
                            = Held(b[daVararg.value], values[Len(names) + k])

-----------------------------------------------------------------------------
(* Visiting a node *)

VisitMethodNames ==
    {"visit_binary_add", "visit_binary", "visit_node", "generic_visit", "visit_value"}

\* what a method of each name may do; "-" stands for a visitor without it
MethodDoes(name) ==
    CASE name = "visit_binary_add" -> {"-", "self", "copy", "raise"}
      [] name = "visit_binary" -> {"-", "other"}
      [] name = "visit_node" -> {"-", "children", "self", "copy", "raise"}
      [] name = "generic_visit" -> {"-", "other"}
      [] name = "visit_value" -> {"-", "raise"}

MethodTables ==
    {[n \in {m \in VisitMethodNames : ch[m] # "-"} |-> ch[n]] :
        ch \in {c \in [VisitMethodNames -> {"-", "self", "copy", "other", "raise", "children"}] :
                    \A m \in VisitMethodNames : c[m] \in MethodDoes(m)}}

Visitors ==
    {[methods |-> m, hooks |-> h, children_first |-> cf, call |-> c] :
        m \in MethodTables, h \in SUBSET {"enter_binary", "leave_binary"},
        cf \in BOOLEAN, c \in {"", "self", "raise"}}

VisitNodes ==
    {One, AstBinary(One, "+", SymX), AstBinary(One, "-", SymX),
     AstBinary(AstBinary(One, "+", SymX), "+", SymY)}

HashSeeds == {"fwd", "rev"}

InitVisit ==
    /\ IdleBody /\ IdleBinary /\ IdleVector /\ IdleScope /\ IdleDefineAll
    /\ IdleWith /\ IdleCount /\ IdleConj /\ IdleFunction
    /\ hashSeed \in HashSeeds
    /\ visNode \in VisitNodes
    /\ visVisitor \in Visitors
    /\ visOp = ""
    /\ visLog = <<>>
    /\ visResult = Unset
    /\ visTree = visNode

\* node.visit(visitor)
Visit ==
    /\ visOp = ""
    /\ \E r \in {AstNode_visit(visNode, visVisitor)} :
          /\ visLog' = r.log
          /\ visResult' = r
    /\ visOp' = "visit"
    /\ UNCHANGED <<hashSeed, visNode, visVisitor, visTree, bodyVars, binVars, vecVars, scopeVars, daVars, withVars, countVars, conjVars, fnVars>>

NextVisit == Visit
SpecVisit == InitVisit /\ [][NextVisit]_vars

\* the events of kind ev in the log whose argument is the visited node
EventsOnNode(ev) ==
    LET Is(e) == e.ev = ev /\ e.arg = visNode
    IN  SelectSeq(visLog, Is)

\* the candidate names of the visited node, in the order of the lookup
Candidates == get_visitor_names(visNode) \o <<"visit_node", "generic_visit">>
ExposedAt == {i \in 1..Len(Candidates) : Candidates[i] \in DOMAIN visVisitor.methods}

HooksExposed ==
    \A i \in 1..2 : get_envelop_method_names(visNode)[i] \in visVisitor.hooks

\* the log starts with the enter hook on the node and ends with the leave
\* hook, each called once for the node
Bracketed ==
    /\ Len(visLog) >= 2
    /\ visLog[1] = Event("enter", get_envelop_method_names(visNode)[1], visNode)
    /\ visLog[Len(visLog)] = Event("leave", get_envelop_method_names(visNode)[2], visNode)
    /\ Len(EventsOnNode("enter")) = 1
    /\ Len(EventsOnNode("leave")) = 1

\* C10 as stated: for every visitor that exposes both hooks, visit calls
\* enter first and leave once at the end, whatever is raised in between
EnvelopeForEveryVisitor ==
    (visOp = "visit" /\ HooksExposed) => Bracketed

\* C10 amended: the same for every visitor that also exposes a visit
\* method for the node (one of its candidate names)
EnvelopeAroundMethod ==
    (visOp = "visit" /\ HooksExposed /\ ExposedAt # {}) => Bracketed

\* the method called for the node raised between the two hooks
EnvelopeAroundMethodWitness ==
    /\ visOp = "visit"
    /\ HooksExposed /\ ExposedAt # {}
    /\ visResult.exc = "HandlerError"
    /\ Len(EventsOnNode("call")) = 1
    /\ Bracketed

-----------------------------------------------------------------------------
(* Annotating a tree *)

KwOne == PyDict(<< <<PyStr("k"), One>> >>)

AttrTrees ==
    {AstBinary(AstBinary(One, "+", SymX), "*", AstReturn(SymY)),
     AstVector(PyList(<<AstReturn(One), SymX>>)),
     AstBody(PyList(<<AstReturn(AstBinary(One, "+", SymX)), AstBreak>>)),
     AstDict(KwOne),
     AstReturn(AstDict(KwOne)),
     AstCall(AstSymbol("f"), PyList(<<One>>), KwOne)}

AttrVisitors ==
    {[methods |-> m, hooks |-> {}, children_first |-> cf, call |-> ""] :
        m \in {t \in MethodTables :
                  /\ DOMAIN t \subseteq {"visit_node", "visit_value", "generic_visit"}
                  /\ DOMAIN t # {}},
        cf \in BOOLEAN}

AttrNames == {"info", "_info"}

InitAttr ==
    /\ IdleBody /\ IdleBinary /\ IdleVector /\ IdleScope /\ IdleDefineAll
    /\ IdleWith /\ IdleCount /\ IdleConj /\ IdleFunction
    /\ hashSeed \in HashSeeds
    /\ visNode \in AttrTrees
    /\ visVisitor \in AttrVisitors
    /\ visOp = ""
    /\ visLog = <<>>
    /\ visResult = Unset
    /\ visTree = visNode

\* root.visit_attribute(visitor, attr)
VisitAttribute ==
    /\ visOp = ""
    /\ \E attr \in AttrNames :
          \E r \in {visit_attribute(visNode, visVisitor, attr, <<>>)} :
              /\ visLog' = r.log
              /\ visResult' = [log |-> r.log, result |-> r.result, exc |-> r.exc,
                               same |-> FALSE]
              /\ visTree' = r.node
    /\ visOp' = "visit_attribute"
    /\ UNCHANGED <<hashSeed, visNode, visVisitor, bodyVars, binVars, vecVars, scopeVars, daVars, withVars, countVars, conjVars, fnVars>>

NextAttr == VisitAttribute
SpecAttr == InitAttr /\ [][NextAttr]_vars

\* the steps from a node to the nodes it holds: in a field, in a sequence
\* held by a field, or as a value of a mapping held by a field
ChildSteps(node) ==
    UNION {LET v == node[f]
           IN  IF IsAstNode(v) THEN {Step(f, 0)}
               ELSE IF v.kind \in {"list", "tuple"}
               THEN {Step(f, k) : k \in {j \in 1..Len(v.items) : IsAstNode(v.items[j])}}
               ELSE IF v.kind = "dict"
               THEN {Step(f, k) : k \in {j \in 1..Len(v.entries) : IsAstNode(v.entries[j][2])}}
               ELSE {} : f \in get_fields(node)}

ChildAt(node, st) ==
    LET v == node[st.f]
    IN  IF st.i = 0 THEN v
        ELSE IF v.kind = "dict" THEN v.entries[st.i][2]
        ELSE v.items[st.i]

RECURSIVE NodePaths(_)
NodePaths(node) ==
    {<<>>} \cup UNION {{<<st>> \o p : p \in NodePaths(ChildAt(node, st))} :
                          st \in ChildSteps(node)}

RECURSIVE NodeAt(_, _)
NodeAt(node, path) ==
    IF path = <<>> THEN node ELSE NodeAt(ChildAt(node, Head(path)), Tail(path))

\* the positions in the log at which the attribute of the node at path is set
SetAt(path) ==
    {i \in 1..Len(visLog) : visLog[i].ev = "setattr" /\ visLog[i].arg.path = path}

\* C8: visit_attribute sets the attribute on every node of the tree, those
\* in sequences and in mappings included, children before their parent
AttributeOnEveryNode ==
    (visOp = "visit_attribute" /\ visResult.exc = "") =>
        \A p \in NodePaths(visNode) :
            /\ SetAt(p) # {}
            /\ \E a \in AttrNames : a \in DOMAIN NodeAt(visTree, p)
            /\ \A st \in ChildSteps(NodeAt(visNode, p)) :
                  \A i \in SetAt(p) : \E j \in SetAt(Append(p, st)) : j < i

\* is_valid of get_children: a node, or an iterable whose items are all nodes
\* (an empty string, an empty dict and an empty list among them)
is_valid(field) ==
    \/ IsAstNode(field)
    \/ /\ field.kind \in {"list", "tuple"}
       /\ IF "items" \in DOMAIN field
          THEN \A i \in 1..Len(field.items) : IsAstNode(field.items[i])
          ELSE field.chars = ""
    \/ field.kind = "dict" /\ field.entries = <<>>
    \/ field.kind = "str" /\ field.value = ""

\* AstNode.get_children
get_children(node) == {f \in get_fields(node) : is_valid(node[f])}

\* AstNode.get_ast_children, each child as the step that leads to it
get_ast_children(node) ==
    UNION {LET v == node[f]
           IN  IF IsAstNode(v) THEN {Step(f, 0)}
               ELSE IF v.kind \in {"list", "tuple"} /\ "items" \in DOMAIN v
               THEN {Step(f, k) : k \in {j \in 1..Len(v.items) : IsAstNode(v.items[j])}}
               ELSE {} : f \in get_fields(node)}

\* the paths of the nodes on which a traversal set the attribute
AnnotatedPaths(log) == {log[i].arg.path : i \in {j \in 1..Len(log) : log[j].ev = "setattr"}}

\* the attribute name of the traversal made
AttrSet == visLog[Len(visLog)].name

\* the tree after the traversal, its root annotated with another value
OtherValue == [visTree EXCEPT ![AttrSet] = PyStr("another")]

\* C17: after visit_attribute every node of the tree has the fields, the
\* child fields and the children it had before; a second traversal sets the
\* attribute on the same nodes as the first; and a tree that was equal to
\* itself is equal to its annotated self and to a copy annotated with another
\* value.
AnnotationKeepsShape ==
    (visOp = "visit_attribute" /\ visResult.exc = "") =>
        /\ \A p \in NodePaths(visNode) :
              /\ get_fields(NodeAt(visTree, p)) = get_fields(NodeAt(visNode, p))
              /\ get_children(NodeAt(visTree, p)) = get_children(NodeAt(visNode, p))
              /\ get_ast_children(NodeAt(visTree, p)) = get_ast_children(NodeAt(visNode, p))
        /\ \E again \in {visit_attribute(visTree, visVisitor, AttrSet, <<>>)} :
              again.exc = "" => AnnotatedPaths(again.log) = AnnotatedPaths(visLog)
        /\ NodeEq(visNode, visNode) = "True" =>
              /\ NodeEq(visTree, visNode) = "True"
              /\ NodeEq(visTree, OtherValue) = "True"


-----------------------------------------------------------------------------
(* Visiting the children of a node *)

ChildrenNodes ==
    {AstBinary(One, "+", SymX), AstBinary(SymX, "-", AstBinary(One, "+", SymY)),
     AstReturn(One), AstReturn(SymX), SymX, AstValue(PyStr("s")),
     AstCall(AstSymbol("f"), PyList(<<One, SymX>>), PyNone),
     AstVector(PyList(<<SymX, One>>)), AstDict(KwOne)}

InitChildren ==
    /\ IdleBody /\ IdleBinary /\ IdleVector /\ IdleScope /\ IdleDefineAll
    /\ IdleWith /\ IdleCount /\ IdleConj /\ IdleFunction
    /\ hashSeed \in HashSeeds
    /\ visNode \in ChildrenNodes
    /\ visVisitor \in AttrVisitors
    /\ visOp = ""
    /\ visLog = <<>>
    /\ visResult = Unset
    /\ visTree = visNode

\* node.visit_children(visitor)
VisitChildren ==
    /\ visOp = ""
    /\ \E r \in {visit_children(visNode, visVisitor)} :
          /\ visLog' = r.log
          /\ visResult' = r
    /\ visOp' = "visit_children"
    /\ UNCHANGED <<hashSeed, visNode, visVisitor, visTree, bodyVars, binVars, vecVars,
                   scopeVars, daVars, withVars, countVars, conjVars, fnVars>>

NextChildren == VisitChildren
SpecChildren == InitChildren /\ [][NextChildren]_vars

\* the fields of the visited node handed to visitor.visit, in the order of
\* the calls
FieldsVisited ==
    LET Top(e) == /\ e.ev = "visit"
                  /\ e.name \in get_fields(visNode)
                  /\ e.arg = visNode[e.name]
        tops == SelectSeq(visLog, Top)
    IN  [i \in 1..Len(tops) |-> tops[i].name]

\* the child fields of the visited node in the order in which the
\* constructor assigns them
ChildFieldsInOrder ==
    LET IsChild(f) == f \in get_children(visNode)
    IN  SelectSeq(FieldUniverse, IsChild)

\* C18: visit_children hands to visitor.visit exactly the fields of
\* get_children, in the order of the node kind's fields, and returns one
\* result for each of them.
ChildrenInFieldOrder ==
    (visOp = "visit_children" /\ visResult.exc = "") =>
        /\ FieldsVisited = ChildFieldsInOrder
        /\ Len(visResult.result.items) = Len(ChildFieldsInOrder)

-----------------------------------------------------------------------------
(* The identity pass *)

\* an instance of Visitor itself: visit_node visits the children and returns
\* the node
BaseVisitor ==
    [methods |-> [n \in {"visit_node"} |-> "children"], hooks |-> {},
     children_first |-> FALSE, call |-> ""]

\* the literals of a literal-vector: bare values and nested lists and tuples
VectorLiterals ==
    {PyInt(1), PyStr("s"), PyList(<<PyInt(1)>>), PyTuple(<<PyInt(1)>>), PyTuple(<<>>)}

IdentityLeaves ==
    {AstValueVector(PyList(s)) : s \in SeqsUpTo(VectorLiterals, MaxItems)}
        \cup {One, SymX, AstValue(PyStr("s")), AstDict(KwOne), CallKw,
              AstVector(PyList(<<SymX, One>>))}

IdentityTrees ==
    IdentityLeaves \cup {AstReturn(n) : n \in IdentityLeaves}
        \cup {AstBinary(One, "+", n) : n \in IdentityLeaves}

InitIdentity ==
    /\ IdleBody /\ IdleBinary /\ IdleVector /\ IdleScope /\ IdleDefineAll
    /\ IdleWith /\ IdleCount /\ IdleConj /\ IdleFunction
    /\ hashSeed \in HashSeeds
    /\ visNode \in IdentityTrees
    /\ visVisitor = BaseVisitor
    /\ visOp = ""
    /\ visLog = <<>>
    /\ visResult = Unset
    /\ visTree = visNode

\* Visitor().visit(root); no method of the base visitor assigns to a node
VisitIdentity ==
    /\ visOp = ""
    /\ \E r \in {Visitor_visit(visVisitor, visNode)} :
          /\ visLog' = r.log
          /\ visResult' = r
    /\ visOp' = "Visitor.visit"
    /\ UNCHANGED <<hashSeed, visNode, visVisitor, visTree, bodyVars, binVars, vecVars,
                   scopeVars, daVars, withVars, countVars, conjVars, fnVars>>

NextIdentity == VisitIdentity
SpecIdentity == InitIdentity /\ [][NextIdentity]_vars

\* C19: Visitor().visit(root) raises nothing, returns root itself and leaves
\* the tree as it was.
IdentityPass ==
    visOp = "Visitor.visit" =>
        /\ visResult.exc = ""
        /\ visResult.same
        /\ visResult.result = visNode
        /\ visTree = visNode

-----------------------------------------------------------------------------
(* Rendering a function *)

AstFunction(name, parameters, body, vararg, doc_string) ==
    LET n == IF name = PyNone THEN PyStr("__lambda__") ELSE name
    IN  IF /\ n.kind = "str" /\ n.value # ""
           /\ parameters.kind = "list"
           /\ \A i \in 1..Len(parameters.items) : parameters.items[i].kind = "str"
           /\ IsAstNode(body)
           /\ vararg.kind \in {"NoneType", "str"}
           /\ doc_string.kind \in {"NoneType", "str"}
        THEN [kind |-> "AstFunction", name |-> n, parameters |-> parameters,
              body |-> body, vararg |-> vararg, doc_string |-> doc_string]
        ELSE Raised("AssertionError")

\* ', '.join(strs)
RECURSIVE JoinStrings(_)
JoinStrings(strs) ==
    IF strs = <<>> THEN ""
    ELSE IF Len(strs) = 1 THEN strs[1].value
    ELSE strs[1].value \o ", " \o JoinStrings(Tail(strs))

\* repr of the bodies used by the model
BodyRepr(node) ==
    CASE node.kind = "AstBreak" -> "break"
      [] node.kind = "AstSymbol" -> node.name.value

\* AstFunction.__repr__: params is the list object self.parameters, to which
\* the variadic parameter is appended; the function afterwards and the text
Function_repr(f) ==
    LET params == IF f.vararg.kind # "NoneType"
                  THEN Append(f.parameters.items, PyStr("*" \o f.vararg.value))
                  ELSE f.parameters.items
    IN  [node |-> [f EXCEPT !.parameters = PyList(params)],
         text |-> f.name.value \o "(" \o JoinStrings(params) \o "): ("
                      \o BodyRepr(f.body) \o ")"]

FunctionNodes ==
    {AstFunction(n, PyList(ps), b, va, PyNone) :
        n \in {PyNone, PyStr("f")},
        ps \in SeqsUpTo({PyStr("a"), PyStr("b")}, MaxItems),
        b \in {AstBreak, SymX},
        va \in {PyNone, PyStr("rest")}}

InitFunction ==
    /\ IdleBody /\ IdleBinary /\ IdleVector /\ IdleScope /\ IdleDefineAll /\ IdleVisit
    /\ IdleWith /\ IdleCount /\ IdleConj
    /\ fnNode \in FunctionNodes
    /\ fnReprs = <<>>

\* repr(f)
Repr ==
    /\ Len(fnReprs) < MaxReprs
    /\ \E r \in {Function_repr(fnNode)} :
          /\ fnNode' = r.node
          /\ fnReprs' = Append(fnReprs, r.text)
    /\ UNCHANGED <<bodyVars, binVars, vecVars, scopeVars, daVars, visitVars,
                   withVars, countVars, conjVars>>

NextFunction == Repr
SpecFunction == InitFunction /\ [][NextFunction]_vars

\* C20: repr(f) changes no field of f, and a repeated repr(f) returns the
\* string that the call before it returned.
ReprReadOnly ==
    [][fnReprs' # fnReprs =>
          /\ fnNode' = fnNode
          /\ fnReprs # <<>> => fnReprs'[Len(fnReprs')] = fnReprs[Len(fnReprs)]]_vars

====
